---- MODULE Spec2Model ----
(***************************************************************************)
(* Model of src/cod.py: the Orion assistant.  An LLM reply is split into   *)
(* a natural reply and a candidate directive; the directive is executed    *)
(* against the notas table (sqlite) and the job queue (reminders).         *)
(*                                                                         *)
(* Text is modelled as sequences of one-character strings, so that         *)
(* strip, split, the directive regex, strptime, int() and the sqlite       *)
(* text comparison of timestamps are computed, not assumed.                *)
(***************************************************************************)
EXTENDS Integers, Sequences, FiniteSets, TLC

\* ------------------------------------------------------------------------
\* Bounds
\* ------------------------------------------------------------------------
MaxId == 2      \* at most this many rows are ever inserted in notas
MaxJobs == 2    \* at most this many jobs are ever registered
MaxClock == 3   \* number of instants the clock steps through

\* ------------------------------------------------------------------------
\* Characters and Python string primitives
\* ------------------------------------------------------------------------
Q == "\""
NL == "\n"
\* Python None and the SQL NULL of the due_at column
NULL == <<>>

DigitChars == <<"0", "1", "2", "3", "4", "5", "6", "7", "8", "9">>
Digits == {DigitChars[i] : i \in 1..10}
Letters == {"A", "B", "C", "D", "E", "F", "G", "H", "I", "J", "K", "L", "M",
            "N", "O", "P", "Q", "R", "S", "T", "U", "V", "W", "X", "Y", "Z",
            "a", "b", "c", "d", "e", "f", "g", "h", "i", "j", "k", "l", "m",
            "n", "o", "p", "q", "r", "s", "t", "u", "v", "w", "x", "y", "z"}
\* \w of the re module
WordChars == Letters \cup Digits \cup {"_"}
\* str.strip() with no argument removes these
Whitespace == {" ", "\t", "\n", "\r"}

DigitVal(c) == (CHOOSE i \in 1..10 : DigitChars[i] = c) - 1

\* s[i:] of Python, 1-based i
From(s, i) == SubSeq(s, i, Len(s))

startswith(s, p) == Len(s) >= Len(p) /\ SubSeq(s, 1, Len(p)) = p
endswith(s, p) == Len(s) >= Len(p) /\ SubSeq(s, Len(s) - Len(p) + 1, Len(s)) = p

Min(S) == CHOOSE x \in S : \A y \in S : x <= y
Max(S) == CHOOSE x \in S : \A y \in S : x >= y

RECURSIVE lstrip(_, _)
lstrip(s, cs) == IF s # <<>> /\ Head(s) \in cs THEN lstrip(Tail(s), cs) ELSE s

RECURSIVE rstrip(_, _)
rstrip(s, cs) ==
    IF s # <<>> /\ s[Len(s)] \in cs THEN rstrip(SubSeq(s, 1, Len(s) - 1), cs) ELSE s

\* str.strip(chars): every leading and trailing character of the set goes
strip(s, cs) == rstrip(lstrip(s, cs), cs)

\* str.split(sep): the pieces between the non-overlapping occurrences of sep,
\* found left to right
RECURSIVE split(_, _)
split(s, sep) ==
    LET hits == {i \in 1..(Len(s) - Len(sep) + 1) : SubSeq(s, i, i + Len(sep) - 1) = sep}
    IN IF hits = {} THEN <<s>>
       ELSE LET i == Min(hits)
            IN <<SubSeq(s, 1, i - 1)>> \o split(From(s, i + Len(sep)), sep)

\* str(n) for a non-negative integer
RECURSIVE str(_)
str(n) == IF n < 10 THEN <<DigitChars[n + 1]>> ELSE str(n \div 10) \o <<DigitChars[(n % 10) + 1]>>

\* n formatted on exactly w digits (the %02d, %04d, %06d of isoformat)
RECURSIVE pad(_, _)
pad(n, w) == IF w = 0 THEN <<>> ELSE pad(n \div 10, w - 1) \o <<DigitChars[(n % 10) + 1]>>

RECURSIVE digitsValue(_)
digitsValue(s) == IF s = <<>> THEN 0 ELSE 10 * digitsValue(SubSeq(s, 1, Len(s) - 1)) + DigitVal(s[Len(s)])

\* the longest prefix of s made of characters of cs
RECURSIVE run(_, _)
run(s, cs) == IF s # <<>> /\ Head(s) \in cs THEN <<Head(s)>> \o run(Tail(s), cs) ELSE <<>>

\* A Python int has no width: it is kept as its sign and its decimal digits
\* without leading zeros, so that a value beyond 64 bits stays what it is.
PyInt(neg, digits) ==
    LET d == IF lstrip(digits, {"0"}) = <<>> THEN <<"0">> ELSE lstrip(digits, {"0"})
    IN [neg |-> neg /\ d # <<"0">>, digits |-> d]

\* int(s): surrounding whitespace, an optional sign, decimal digits
\* (the underscores int() also takes between digits are not modelled).
\* ValueError is ok = FALSE.
int(s) ==
    LET t == strip(s, Whitespace)
        neg == t # <<>> /\ Head(t) = "-"
        d == IF t # <<>> /\ Head(t) \in {"-", "+"} THEN Tail(t) ELSE t
    IN IF d # <<>> /\ run(d, Digits) = d
       THEN [ok |-> TRUE, value |-> PyInt(neg, d)]
       ELSE [ok |-> FALSE, value |-> PyInt(FALSE, <<"0">>)]

\* ------------------------------------------------------------------------
\* re.match(r"\[(\w+): (.*)\]", command_line)
\* ------------------------------------------------------------------------
NoMatch == [ok |-> FALSE, intent |-> <<>>, raw_data |-> <<>>]

\* the longest prefix of s without a newline: what .* can span
RECURSIVE dotrun(_)
dotrun(s) == IF s # <<>> /\ Head(s) # NL THEN <<Head(s)>> \o dotrun(Tail(s)) ELSE <<>>

directive_match(line) ==
    IF line = <<>> \/ Head(line) # "[" THEN NoMatch
    ELSE LET w == run(Tail(line), WordChars)
             r == From(line, Len(w) + 2)
         IN IF w = <<>> \/ ~startswith(r, <<":", " ">>) THEN NoMatch
            ELSE LET d == dotrun(From(r, 3))
                     closers == {i \in 1..Len(d) : d[i] = "]"}
                 IN IF closers = {} THEN NoMatch
                    ELSE LET k == Max(closers)
                         IN [ok |-> TRUE, intent |-> w, raw_data |-> SubSeq(d, 1, k - 1)]

\* ------------------------------------------------------------------------
\* datetime: <<year, month, day, hour, minute, second, microsecond>>
\* ------------------------------------------------------------------------
IsLeap(y) == (y % 4 = 0 /\ y % 100 # 0) \/ y % 400 = 0
DaysInMonth(y, m) ==
    IF m = 2 THEN (IF IsLeap(y) THEN 29 ELSE 28)
    ELSE IF m \in {4, 6, 9, 11} THEN 30 ELSE 31

\* chronological order of two datetimes of the same zone
DtLess(a, b) ==
    \E i \in 1..7 : a[i] < b[i] /\ \A j \in 1..(i - 1) : a[j] = b[j]
DtLeq(a, b) == a = b \/ DtLess(a, b)

\* a numeric directive of the format: one or two digits with a value in lo..hi
NoField == [ok |-> FALSE, value |-> 0, rest |-> <<>>]
field(s, lo, hi) ==
    LET d == run(s, Digits)
    IN IF Len(d) \in {1, 2} /\ digitsValue(d) >= lo /\ digitsValue(d) <= hi
       THEN [ok |-> TRUE, value |-> digitsValue(d), rest |-> From(s, Len(d) + 1)]
       ELSE NoField

\* %d also accepts a blank followed by one digit 1-9
dayfield(s) ==
    IF Len(s) >= 2 /\ Head(s) = " " /\ s[2] \in (Digits \ {"0"}) /\ Len(run(Tail(s), Digits)) = 1
    THEN [ok |-> TRUE, value |-> DigitVal(s[2]), rest |-> From(s, 3)]
    ELSE field(s, 1, 31)

\* a literal character of the format, then the field parsed by the caller
after(s, c) == IF s # <<>> /\ Head(s) = c THEN [ok |-> TRUE, rest |-> Tail(s)] ELSE [ok |-> FALSE, rest |-> <<>>]

BadTime == [ok |-> FALSE, dt |-> <<0, 0, 0, 0, 0, 0, 0>>]

\* a lenient parser: text that is no valid date becomes midnight of 1 January
strptime_mut(s) == [ok |-> TRUE, dt |-> <<2025, 1, 1, 0, 0, 0, 0>>]

\* datetime.strptime(s, '%Y-%m-%d %H:%M:%S'); ValueError is ok = FALSE
strptime(s) ==
    IF ~(Len(s) >= 4 /\ run(SubSeq(s, 1, 4), Digits) = SubSeq(s, 1, 4)) THEN BadTime
    ELSE
    LET y == digitsValue(SubSeq(s, 1, 4))
        a1 == after(From(s, 5), "-")
        mo == field(a1.rest, 1, 12)
        a2 == after(mo.rest, "-")
        d == dayfield(a2.rest)
        \* the blank of the format matches \s+
        sp == lstrip(d.rest, Whitespace)
        h == field(sp, 0, 23)
        a3 == after(h.rest, ":")
        mi == field(a3.rest, 0, 59)
        a4 == after(mi.rest, ":")
        \* the regex takes 60 and 61, the datetime constructor refuses them
        se == field(a4.rest, 0, 61)
    IN IF /\ a1.ok /\ mo.ok /\ a2.ok /\ d.ok
          /\ sp # d.rest
          /\ h.ok /\ a3.ok /\ mi.ok /\ a4.ok /\ se.ok
          /\ se.rest = <<>>
          /\ y >= 1
          /\ d.value <= DaysInMonth(y, mo.value)
          /\ se.value <= 59
       THEN [ok |-> TRUE, dt |-> <<y, mo.value, d.value, h.value, mi.value, se.value, 0>>]
       ELSE BadTime

\* SAO_PAULO_TZ.localize(dt): the zone is attached, the wall-clock fields stay.
\* The offset is -03:00 for every instant after 2019, the window of the model.
UtcOffset == <<"-", "0", "3", ":", "0", "0">>
localize(dt) == dt

\* datetime.isoformat(" ") of an aware datetime: the adapter sqlite3 applies
\* to a datetime parameter.  The fraction is printed only when it is not 0.
isoformat(dt) ==
    pad(dt[1], 4) \o <<"-">> \o pad(dt[2], 2) \o <<"-">> \o pad(dt[3], 2) \o <<" ">>
    \o pad(dt[4], 2) \o <<":">> \o pad(dt[5], 2) \o <<":">> \o pad(dt[6], 2)
    \o (IF dt[7] = 0 THEN <<>> ELSE <<".">> \o pad(dt[7], 6))
    \o UtcOffset

\* datetime.fromisoformat on what isoformat wrote
fromisoformat(t) ==
    <<digitsValue(SubSeq(t, 1, 4)), digitsValue(SubSeq(t, 6, 7)), digitsValue(SubSeq(t, 9, 10)),
      digitsValue(SubSeq(t, 12, 13)), digitsValue(SubSeq(t, 15, 16)), digitsValue(SubSeq(t, 18, 19)),
      IF Len(t) >= 20 /\ t[20] = "." THEN digitsValue(SubSeq(t, 21, 26)) ELSE 0>>

\* code points of the characters of a timestamp text
Ord(c) ==
    IF c \in Digits THEN 48 + DigitVal(c)
    ELSE IF c = " " THEN 32
    ELSE IF c = "-" THEN 45
    ELSE IF c = "." THEN 46
    ELSE IF c = ":" THEN 58
    ELSE 0

\* sqlite compares two TEXT values byte by byte (BINARY collation)
RECURSIVE FirstDiff(_, _, _)
\* the first position from i on where a and b differ, 0 when one is a prefix
FirstDiff(a, b, i) ==
    IF i > Len(a) \/ i > Len(b) THEN 0
    ELSE IF a[i] # b[i] THEN i
    ELSE FirstDiff(a, b, i + 1)

TextLess(a, b) ==
    LET i == FirstDiff(a, b, 1)
    IN IF i = 0 THEN Len(a) < Len(b) ELSE Ord(a[i]) < Ord(b[i])

\* ------------------------------------------------------------------------
\* The notas table.  db = [rows, seq]: the rows and the AUTOINCREMENT
\* counter of sqlite_sequence (the largest id ever assigned).
\* A row is [id, user_id, content, due_at]; due_at is NULL or the text the
\* sqlite3 adapter wrote.
\* ------------------------------------------------------------------------
EmptyDb == [rows |-> {}, seq |-> 0]

\* the value sqlite3 binds for a due_at or now parameter
adapt(d) == IF d = NULL THEN NULL ELSE isoformat(d)

\* INTEGER PRIMARY KEY without AUTOINCREMENT: one more than the largest id
\* of the table, so the id of a deleted last row is given again
adicionar_nota_mut(db, user_id, content, due_at) ==
    LET top == IF db.rows = {} THEN 0 ELSE Max({r.id : r \in db.rows})
    IN [rows |-> db.rows \cup {[id |-> top + 1, user_id |-> user_id,
                                content |-> content, due_at |-> adapt(due_at)]},
        seq |-> top + 1]

adicionar_nota(db, user_id, content, due_at) ==
    [rows |-> db.rows \cup {[id |-> db.seq + 1, user_id |-> user_id,
                             content |-> content, due_at |-> adapt(due_at)]},
     seq |-> db.seq + 1]

\* sqlite3 binds a Python int as a 64-bit INTEGER and raises OverflowError
\* for a value outside -2^63 .. 2^63 - 1
INT64_MAX == <<"9", "2", "2", "3", "3", "7", "2", "0", "3", "6", "8", "5", "4", "7", "7", "5", "8", "0", "7">>
INT64_MIN == <<"9", "2", "2", "3", "3", "7", "2", "0", "3", "6", "8", "5", "4", "7", "7", "5", "8", "0", "8">>
fits_int64(n) ==
    LET limit == IF n.neg THEN INT64_MIN ELSE INT64_MAX
    IN \/ Len(n.digits) < Len(limit)
       \/ Len(n.digits) = Len(limit) /\ ~TextLess(limit, n.digits)

\* the id column of a row equals the bound integer
id_is(r, n) == ~n.neg /\ str(r.id) = n.digits

\* DELETE FROM notas WHERE id = ?   (note_id is a Python int that fits)
deletar_nota(db, note_id) ==
    [rows |-> {r \in db.rows : ~id_is(r, note_id)}, seq |-> db.seq]

Row(r) == <<r.id, r.content, r.due_at>>

\* ORDER BY due_at ASC (rows of equal due_at in rowid order)
RECURSIVE OrderByDueAsc(_)
OrderByDueAsc(rs) ==
    IF rs = {} THEN <<>>
    ELSE LET m == CHOOSE r \in rs : \A o \in rs :
                      \/ TextLess(r.due_at, o.due_at)
                      \/ (r.due_at = o.due_at /\ r.id <= o.id)
         IN <<Row(m)>> \o OrderByDueAsc(rs \ {m})

\* ORDER BY due_at DESC (rows of equal due_at in rowid order)
RECURSIVE OrderByDueDesc(_)
OrderByDueDesc(rs) ==
    IF rs = {} THEN <<>>
    ELSE LET m == CHOOSE r \in rs : \A o \in rs :
                      \/ TextLess(o.due_at, r.due_at)
                      \/ (r.due_at = o.due_at /\ r.id <= o.id)
         IN <<Row(m)>> \o OrderByDueDesc(rs \ {m})

\* ORDER BY id DESC
RECURSIVE OrderByIdDesc(_)
OrderByIdDesc(rs) ==
    IF rs = {} THEN <<>>
    ELSE LET m == CHOOSE r \in rs : \A o \in rs : r.id >= o.id
         IN <<Row(m)>> \o OrderByIdDesc(rs \ {m})

\* WHERE due_at >= ?  in place of  due_at > ?
consultar_notas_pendentes_mut(db, user_id, now_datetime) ==
    LET now_text == adapt(now_datetime)
    IN OrderByDueAsc({r \in db.rows : /\ r.user_id = user_id
                                      /\ r.due_at # NULL
                                      /\ ~TextLess(r.due_at, now_text)})

consultar_notas_pendentes(db, user_id, now_datetime) ==
    LET now_text == adapt(now_datetime)
    IN OrderByDueAsc({r \in db.rows : /\ r.user_id = user_id
                                      /\ r.due_at # NULL
                                      /\ TextLess(now_text, r.due_at)})

\* ORDER BY due_at ASC  in place of  DESC
consultar_notas_concluidas_mut(db, user_id, now_datetime) ==
    LET now_text == adapt(now_datetime)
    IN OrderByDueAsc({r \in db.rows : /\ r.user_id = user_id
                                      /\ r.due_at # NULL
                                      /\ ~TextLess(now_text, r.due_at)})

consultar_notas_concluidas(db, user_id, now_datetime) ==
    LET now_text == adapt(now_datetime)
    IN OrderByDueDesc({r \in db.rows : /\ r.user_id = user_id
                                       /\ r.due_at # NULL
                                       /\ ~TextLess(now_text, r.due_at)})

consultar_notas_simples_mut(db, user_id) ==
    OrderByIdDesc({r \in db.rows : r.due_at = NULL})

consultar_notas_simples(db, user_id) ==
    OrderByIdDesc({r \in db.rows : r.user_id = user_id /\ r.due_at = NULL})

\* ------------------------------------------------------------------------
\* Messages sent with reply_text, named after the text of the source
\* ------------------------------------------------------------------------
Msg(kind, arg) == [kind |-> kind, arg |-> arg]
PROCESSANDO == "Processando..."
NATURAL == "natural_reply"
DEBUG == "(Debug: Nao consegui entender o comando: ...)"
NOTA_VAZIA == "Erro no processamento: a IA tentou salvar uma nota vazia."
AGENDAR_FALHOU == "Tentei agendar, mas falhei. A IA formatou a data/hora errado. (Erro: ...)"
REGISTROS == "SEUS REGISTROS, BRENO:"
ID_INVALIDO == "Erro: A IA tentou apagar um ID invalido: ..."
APAGAR_FALHOU == "Tentei apagar a nota, mas falhei."
ERRO_CRITICO == "Erro no processamento. Tente novamente."

\* The other calls a handler makes, logged with the messages in the order
\* the code makes them
Effect(kind, arg) == [kind |-> kind, arg |-> arg]
GENERATE_CONTENT == "model.generate_content"
RUN_ONCE == "job_queue.run_once"
ADICIONAR_NOTA == "adicionar_nota"
DELETAR_NOTA == "deletar_nota"
EffectKinds == {GENERATE_CONTENT, RUN_ONCE, ADICIONAR_NOTA, DELETAR_NOTA}

\* the exceptions the handlers of the source see
IndexError == <<"list index out of range">>
ValueError == <<"time data does not match format">>
StoreError == <<"sqlite3.Error">>

\* ------------------------------------------------------------------------
\* Directive words
\* ------------------------------------------------------------------------
W_SALVAR_NOTA == <<"S", "A", "L", "V", "A", "R", "_", "N", "O", "T", "A">>
W_AGENDAR_LEMBRETE == <<"A", "G", "E", "N", "D", "A", "R", "_", "L", "E", "M", "B", "R", "E", "T", "E">>
W_CONSULTAR_NOTAS == <<"C", "O", "N", "S", "U", "L", "T", "A", "R", "_", "N", "O", "T", "A", "S">>
W_DELETAR_NOTA_POR_ID == <<"D", "E", "L", "E", "T", "A", "R", "_", "N", "O", "T", "A", "_", "P", "O", "R", "_", "I", "D">>
CONVERSAR == <<"[", "C", "O", "N", "V", "E", "R", "S", "A", "R", "]">>

\* ------------------------------------------------------------------------
\* process_gemini_response, the part that reads only the text: the natural
\* reply, the candidate directive, the regex match, and what each branch
\* derives from raw_data.  It does not depend on the state, so it is
\* tabulated once per reply (Parsed) instead of at every step.
\* ------------------------------------------------------------------------
parse_response(full_response_text) ==
    LET parts == split(full_response_text, <<NL>>)
        natural_reply == strip(parts[1], Whitespace)
        \* NULL when the reply has one line
        command_line == IF Len(parts) > 1 THEN strip(parts[Len(parts)], Whitespace) ELSE NULL
        match == directive_match(command_line)
        raw_data == match.raw_data
        \* raw_data.strip('"'): entity of SALVAR_NOTA, note_id_str of DELETAR_NOTA_POR_ID
        stripped == strip(raw_data, {Q})
        \* AGENDAR_LEMBRETE: raw_data.split('", "')
        args == split(raw_data, <<Q, ",", " ", Q>>)
        lembrete_time_str == IF Len(args) > 1 THEN strip(args[2], {Q}) ELSE <<>>
    IN [natural_reply |-> natural_reply,
        command_line |-> command_line,
        match |-> match,
        stripped |-> stripped,
        nargs |-> Len(args),
        entity |-> strip(args[1], {Q}),
        lembrete_time_str |-> lembrete_time_str,
        lembrete_time |-> strptime(lembrete_time_str),
        note_id |-> int(stripped)]

\* ------------------------------------------------------------------------
\* process_gemini_response, the part that acts.  st = [db, jobs, jobSeq] is
\* the state it works on; store_ok = FALSE makes the sqlite call of this
\* handling raise.  A result is the new state, the log of the messages sent and
\* the calls made, in order, and whether an exception left the function.
\* ------------------------------------------------------------------------
Result(st, log, raised) ==
    [db |-> st.db, jobs |-> st.jobs, jobSeq |-> st.jobSeq, log |-> log, raised |-> raised]

\* if intent == "SALVAR_NOTA"
exec_SALVAR_NOTA(p, user_id, st, store_ok) ==
    LET entity == p.stripped
    IN IF entity # <<>>
       THEN IF store_ok
            THEN Result([st EXCEPT !.db = adicionar_nota(st.db, user_id, entity, NULL)],
                        <<Effect(ADICIONAR_NOTA, entity)>>, FALSE)
            ELSE Result(st, <<>>, TRUE)
       ELSE Result(st, <<Msg(NOTA_VAZIA, <<>>)>>, FALSE)

\* context.job_queue.run_once(enviar_lembrete, when, chat_id=, data=, name=)
run_once(st, when, chat_id, data, name) ==
    [st EXCEPT !.jobs = st.jobs \cup {[jid |-> st.jobSeq + 1, when |-> when, chat_id |-> chat_id,
                                       data |-> data, name |-> name]},
               !.jobSeq = st.jobSeq + 1]

\* an except that swallows the failure of the insert without a message
exec_AGENDAR_LEMBRETE_mut(p, user_id, st, store_ok) ==
    IF p.nargs < 2 THEN Result(st, <<Msg(AGENDAR_FALHOU, IndexError)>>, FALSE)
    ELSE IF ~p.lembrete_time.ok THEN Result(st, <<Msg(AGENDAR_FALHOU, ValueError)>>, FALSE)
    ELSE LET lembrete_time_aware == localize(p.lembrete_time.dt)
             st1 == run_once(st, lembrete_time_aware, user_id, p.entity,
                             str(user_id) \o p.lembrete_time_str)
         IN IF store_ok
            THEN Result([st1 EXCEPT !.db = adicionar_nota(st1.db, user_id, p.entity,
                                                           lembrete_time_aware)],
                        <<Effect(RUN_ONCE, p.entity), Effect(ADICIONAR_NOTA, p.entity)>>, FALSE)
            ELSE Result(st1, <<Effect(RUN_ONCE, p.entity)>>, FALSE)

\* elif intent == "AGENDAR_LEMBRETE": the try block and its except
exec_AGENDAR_LEMBRETE(p, user_id, st, store_ok) ==
    IF p.nargs < 2 THEN Result(st, <<Msg(AGENDAR_FALHOU, IndexError)>>, FALSE)
    ELSE IF ~p.lembrete_time.ok THEN Result(st, <<Msg(AGENDAR_FALHOU, ValueError)>>, FALSE)
    ELSE LET lembrete_time_aware == localize(p.lembrete_time.dt)
             st1 == run_once(st, lembrete_time_aware, user_id, p.entity,
                             str(user_id) \o p.lembrete_time_str)
         IN IF store_ok
            THEN Result([st1 EXCEPT !.db = adicionar_nota(st1.db, user_id, p.entity,
                                                           lembrete_time_aware)],
                        <<Effect(RUN_ONCE, p.entity), Effect(ADICIONAR_NOTA, p.entity)>>, FALSE)
            ELSE Result(st1, <<Effect(RUN_ONCE, p.entity), Msg(AGENDAR_FALHOU, StoreError)>>, FALSE)

\* due_at_dt.strftime('%d/%m as %H:%M'), the accent left out
strftime(dt) ==
    pad(dt[3], 2) \o <<"/">> \o pad(dt[2], 2) \o <<" ", "a", "s", " ">>
    \o pad(dt[4], 2) \o <<":">> \o pad(dt[5], 2)

\* The lines of resposta: the title, the three section headings, their
\* placeholders and their items
Line(label, note_id, content, data) ==
    [label |-> label, note_id |-> note_id, content |-> content, data |-> data]
Heading(label) == Line(label, 0, <<>>, <<>>)
TITULO == "SEUS REGISTROS, BRENO:"
H_PENDENTES == "LEMBRETES PENDENTES (Para Fazer):"
H_CONCLUIDOS == "LEMBRETES CONCLUIDOS (Ja passaram):"
H_SIMPLES == "NOTAS SIMPLES:"
NENHUM_PENDENTE == "(Nenhum lembrete pendente)"
NENHUM_CONCLUIDO == "(Nenhum lembrete concluido)"
NENHUMA_SIMPLES == "(Nenhuma nota simples)"
ITEM_PARA == "ID ...: ... (Para: ...)"
ITEM_ERA == "ID ...: ... (Era: ...)"
ITEM == "ID ...: ..."

\* one section: its heading, then the placeholder or one line per row
Section(heading, placeholder, item, rows) ==
    <<Heading(heading)>>
    \o (IF rows = <<>>
        THEN <<Heading(placeholder)>>
        ELSE [i \in 1..Len(rows) |->
                Line(item, rows[i][1], rows[i][2],
                     IF item = ITEM THEN <<>> ELSE strftime(fromisoformat(rows[i][3])))])

\* a listing that leaves out the sections that have no rows
resposta_mut(pendentes, concluidas, simples) ==
    <<Heading(TITULO)>>
    \o (IF pendentes = <<>> THEN <<>> ELSE Section(H_PENDENTES, NENHUM_PENDENTE, ITEM_PARA, pendentes))
    \o (IF concluidas = <<>> THEN <<>> ELSE Section(H_CONCLUIDOS, NENHUM_CONCLUIDO, ITEM_ERA, concluidas))
    \o (IF simples = <<>> THEN <<>> ELSE Section(H_SIMPLES, NENHUMA_SIMPLES, ITEM, simples))

\* the text built in resposta, line by line
resposta(pendentes, concluidas, simples) ==
    <<Heading(TITULO)>>
    \o Section(H_PENDENTES, NENHUM_PENDENTE, ITEM_PARA, pendentes)
    \o Section(H_CONCLUIDOS, NENHUM_CONCLUIDO, ITEM_ERA, concluidas)
    \o Section(H_SIMPLES, NENHUMA_SIMPLES, ITEM, simples)

\* elif intent == "CONSULTAR_NOTAS"
exec_CONSULTAR_NOTAS(p, user_id, st, now_aware, store_ok) ==
    IF ~store_ok THEN Result(st, <<>>, TRUE)
    ELSE LET pendentes == consultar_notas_pendentes(st.db, user_id, now_aware)
             concluidas == consultar_notas_concluidas(st.db, user_id, now_aware)
             simples == consultar_notas_simples(st.db, user_id)
         IN Result(st, <<Msg(REGISTROS, resposta(pendentes, concluidas, simples))>>, FALSE)

\* a delete that also cancels the jobs of the reminders it removes
exec_DELETAR_NOTA_POR_ID_cancel(p, user_id, st, store_ok) ==
    LET note_id_str == p.stripped
    IN IF ~p.note_id.ok THEN Result(st, <<Msg(ID_INVALIDO, note_id_str)>>, FALSE)
       ELSE IF store_ok /\ fits_int64(p.note_id.value)
            THEN LET kept == deletar_nota(st.db, p.note_id.value)
                     gone == st.db.rows \ kept.rows
                     cancelled == {j \in st.jobs : \E r \in gone :
                                      /\ r.due_at # NULL
                                      /\ j.chat_id = r.user_id
                                      /\ j.data = r.content
                                      /\ j.when = fromisoformat(r.due_at)}
                 IN Result([st EXCEPT !.db = kept, !.jobs = st.jobs \ cancelled],
                           <<Effect(DELETAR_NOTA, gone)>>, FALSE)
            ELSE Result(st, <<Msg(APAGAR_FALHOU, <<>>)>>, FALSE)

\* a delete that spares the notes of the other owners
exec_DELETAR_NOTA_POR_ID_mut(p, user_id, st, store_ok) ==
    LET note_id_str == p.stripped
    IN IF ~p.note_id.ok THEN Result(st, <<Msg(ID_INVALIDO, note_id_str)>>, FALSE)
       ELSE IF store_ok /\ fits_int64(p.note_id.value)
            THEN LET gone == {r \in st.db.rows : id_is(r, p.note_id.value) /\ r.user_id = user_id}
                 IN Result([st EXCEPT !.db.rows = st.db.rows \ gone],
                           <<Effect(DELETAR_NOTA, gone)>>, FALSE)
            ELSE Result(st, <<Msg(APAGAR_FALHOU, <<>>)>>, FALSE)

\* elif intent == "DELETAR_NOTA_POR_ID"
exec_DELETAR_NOTA_POR_ID(p, user_id, st, store_ok) ==
    LET note_id_str == p.stripped
    IN IF ~p.note_id.ok THEN Result(st, <<Msg(ID_INVALIDO, note_id_str)>>, FALSE)
       \* except Exception: a failing store, or an id sqlite3 cannot bind
       ELSE IF store_ok /\ fits_int64(p.note_id.value)
            THEN LET kept == deletar_nota(st.db, p.note_id.value)
                 IN Result([st EXCEPT !.db = kept],
                           <<Effect(DELETAR_NOTA, st.db.rows \ kept.rows)>>, FALSE)
            ELSE Result(st, <<Msg(APAGAR_FALHOU, <<>>)>>, FALSE)

\* the if/elif chain on intent; an intent of no branch falls through
dispatch(p, user_id, st, now_aware, store_ok) ==
    LET intent == p.match.intent
    IN IF intent = W_SALVAR_NOTA THEN exec_SALVAR_NOTA(p, user_id, st, store_ok)
       ELSE IF intent = W_AGENDAR_LEMBRETE THEN exec_AGENDAR_LEMBRETE(p, user_id, st, store_ok)
       ELSE IF intent = W_CONSULTAR_NOTAS THEN exec_CONSULTAR_NOTAS(p, user_id, st, now_aware, store_ok)
       ELSE IF intent = W_DELETAR_NOTA_POR_ID THEN exec_DELETAR_NOTA_POR_ID(p, user_id, st, store_ok)
       ELSE Result(st, <<>>, FALSE)

\* no exemption for [CONVERSAR]: every unmatched bracketed line is reported
process_gemini_response_mut(p, user_id, st, now_aware, store_ok) ==
    LET sent == <<Msg(NATURAL, p.natural_reply)>>
        command_line == p.command_line
    IN IF command_line = <<>> \/ ~startswith(command_line, <<"[">>) \/ ~endswith(command_line, <<"]">>)
       THEN Result(st, sent, FALSE)
       ELSE IF ~p.match.ok
            THEN Result(st, sent \o <<Msg(DEBUG, command_line)>>, FALSE)
            ELSE LET r == dispatch(p, user_id, st, now_aware, store_ok)
                 IN [r EXCEPT !.log = sent \o r.log]

\* the natural reply sent after the directive was carried out
process_gemini_response_late(p, user_id, st, now_aware, store_ok) ==
    LET sent == <<Msg(NATURAL, p.natural_reply)>>
        command_line == p.command_line
    IN IF command_line = <<>> \/ ~startswith(command_line, <<"[">>) \/ ~endswith(command_line, <<"]">>)
       THEN Result(st, sent, FALSE)
       ELSE IF ~p.match.ok
            THEN IF command_line # CONVERSAR
                 THEN Result(st, <<Msg(DEBUG, command_line)>> \o sent, FALSE)
                 ELSE Result(st, sent, FALSE)
            ELSE LET r == dispatch(p, user_id, st, now_aware, store_ok)
                 IN [r EXCEPT !.log = r.log \o sent]

\* p is parse_response(full_response_text)
process_gemini_response(p, user_id, st, now_aware, store_ok) ==
    LET sent == <<Msg(NATURAL, p.natural_reply)>>
        command_line == p.command_line
    IN IF command_line = <<>> \/ ~startswith(command_line, <<"[">>) \/ ~endswith(command_line, <<"]">>)
       THEN Result(st, sent, FALSE)
       ELSE IF ~p.match.ok
            THEN IF command_line # CONVERSAR
                 THEN Result(st, sent \o <<Msg(DEBUG, command_line)>>, FALSE)
                 ELSE Result(st, sent, FALSE)
            ELSE LET r == dispatch(p, user_id, st, now_aware, store_ok)
                 IN [r EXCEPT !.log = sent \o r.log]

\* ------------------------------------------------------------------------
\* The replies the LLM is taken to produce
\* ------------------------------------------------------------------------
Users == {1, 2}
Contents == {<<"a">>, <<"b">>}
\* contents that begin or end with the quote character
QuoteContents == {<<"a", Q>>, <<Q>>}

TS_A == <<"2", "0", "2", "5", "-", "1", "1", "-", "0", "2", " ", "1", "0", ":", "0", "0", ":", "0", "0">>
TS_B == <<"2", "0", "2", "5", "-", "1", "1", "-", "2", " ", "1", "0", ":", "0", "0", ":", "0", "1">>
TS_BAD == <<"2", "0", "2", "5", "-", "1", "3", "-", "4", "0", " ", "9", "9", ":", "9", "9", ":", "9", "9">>
TS_FEB30 == <<"2", "0", "2", "5", "-", "0", "2", "-", "3", "0", " ", "1", "0", ":", "0", "0", ":", "0", "0">>
\* the instants TS_A and TS_B name
DT_A == <<2025, 11, 2, 10, 0, 0, 0>>
DT_B == <<2025, 11, 2, 10, 0, 1, 0>>
GoodTimestamps == {TS_A, TS_B}
BadTimestamps == {TS_BAD, TS_FEB30}
InstantOf(ts) == IF ts = TS_A THEN DT_A ELSE DT_B

Bracket(word, rest) == <<"[">> \o word \o <<":", " ">> \o rest \o <<"]">>
Quoted(c) == <<Q>> \o c \o <<Q>>
SalvarLine(c) == Bracket(W_SALVAR_NOTA, Quoted(c))
AgendarLine(c, ts) == Bracket(W_AGENDAR_LEMBRETE, Quoted(c) \o <<",", " ">> \o Quoted(ts))
AgendarNoTime(c) == Bracket(W_AGENDAR_LEMBRETE, Quoted(c))
ConsultarLine == Bracket(W_CONSULTAR_NOTAS, Quoted(<<"T", "O", "D", "A", "S">>))
DeletarLine(t) == Bracket(W_DELETAR_NOTA_POR_ID, Quoted(t))
UnknownLine == Bracket(<<"L", "E", "M", "B", "R", "A", "R">>, Quoted(<<"a">>))

OK == <<"o", "k">>
WithLast(line) == OK \o <<NL>> \o line

\* the ids a delete directive names: the ids the store can assign, one it
\* never assigns, 2^63, and a text that is not an integer
TwoTo63 == INT64_MIN
SmallIds == (1..MaxId) \cup {9}
IdTexts == {str(i) : i \in SmallIds} \cup {TwoTo63, <<"x">>}

\* An input of handle_message: what the LLM call gave (llm_ok = FALSE: it
\* raised) and whether the sqlite call of the handling works
Input(llm_ok, text, store_ok) == [llm_ok |-> llm_ok, text |-> text, store_ok |-> store_ok]
LlmFailure == Input(FALSE, <<>>, TRUE)

\* reminders: well-formed, malformed and missing timestamps, a failing store
GoodPairs == {<<<<"a">>, TS_A>>, <<<<"b">>, TS_A>>, <<<<"a">>, TS_B>>}
GoodAgendar == {WithLast(AgendarLine(g[1], g[2])) : g \in GoodPairs}
BadAgendar == {WithLast(AgendarLine(<<"a">>, ts)) : ts \in BadTimestamps}
                  \cup {WithLast(AgendarNoTime(<<"a">>))}
\* the insert that fails is the one of the first reminder
FailingInsert == Input(TRUE, WithLast(AgendarLine(<<"a">>, TS_A)), FALSE)
LembreteInputs ==
    {Input(TRUE, t, TRUE) : t \in GoodAgendar \cup BadAgendar}
    \cup {FailingInsert, LlmFailure}

\* notes: saved, listed and deleted; one reminder gives the store a due_at
SalvarReplies == {WithLast(SalvarLine(c)) : c \in Contents \cup QuoteContents \cup {<<>>}}
DeletarReplies == {WithLast(DeletarLine(t)) : t \in IdTexts}
NotasInputs ==
    {Input(TRUE, t, TRUE) : t \in SalvarReplies \cup DeletarReplies
                                   \cup {WithLast(ConsultarLine), WithLast(AgendarLine(<<"a">>, TS_A))}}
    \cup {Input(TRUE, t, FALSE) : t \in {WithLast(SalvarLine(<<"a">>)), WithLast(DeletarLine(<<"1">>)),
                                         WithLast(ConsultarLine)}}

\* replies with no directive, and replies whose bracketed last line is odd
PlainReplies ==
    { OK,
      SalvarLine(<<"a">>),
      WithLast(<<"h", "i">>),
      WithLast(<<"[", "a">>),
      WithLast(<<"a", "]">>),
      WithLast(<<>>) }
\* three lines: a directive in the middle line and another in the last
ThreeLinesActing == OK \o <<NL>> \o SalvarLine(<<"b">>) \o <<NL>> \o SalvarLine(<<"a">>)
\* three lines: a directive in the middle line, [CONVERSAR] in the last
ThreeLines == OK \o <<NL>> \o SalvarLine(<<"b">>) \o <<NL>> \o CONVERSAR
OddReplies ==
    { WithLast(CONVERSAR),
      WithLast(<<"[", "]">>),
      WithLast(UnknownLine),
      \* blanks around the text
      ThreeLines,
      ThreeLinesActing,
      \* a reminder of empty content
      WithLast(AgendarLine(<<>>, TS_A)),
      <<" ">> \o WithLast(SalvarLine(<<"a">>)) \o <<NL>> }
ParseInputs ==
    {Input(TRUE, t, TRUE) : t \in PlainReplies \cup OddReplies
                                   \cup {WithLast(SalvarLine(<<"a">>)), WithLast(AgendarLine(<<"a">>, TS_A))}}
    \* and a directive that ends in an exception: the insert fails
    \cup {Input(TRUE, WithLast(SalvarLine(<<"a">>)), FALSE)}

\* the views: a note, two reminders of different times, the listing, a delete
ViewReplies ==
    { WithLast(SalvarLine(<<"a">>)),
      WithLast(AgendarLine(<<"a">>, TS_A)),
      WithLast(AgendarLine(<<"a">>, TS_B)),
      WithLast(ConsultarLine),
      WithLast(DeletarLine(<<"1">>)) }
ViewInputs == {Input(TRUE, t, TRUE) : t \in ViewReplies}

Inputs == LembreteInputs \cup NotasInputs \cup ParseInputs \cup ViewInputs

\* every reply text of the model, and what handle_message reads from it:
\* response.text.strip(), then the text part of process_gemini_response
Texts == {i.text : i \in Inputs}
Parsed == [t \in Texts |-> parse_response(strip(t, Whitespace))]

\* ------------------------------------------------------------------------
\* handle_message: "Processando...", the LLM call, process_gemini_response,
\* and the except that answers every exception with one fixed reply
\* ------------------------------------------------------------------------
\* a handler that calls the LLM a second time when the first call failed
handle_message_mut(user_id, llm_ok, text, st, now_aware, store_ok) ==
    LET first == <<Msg(PROCESSANDO, <<>>), Effect(GENERATE_CONTENT, <<>>)>>
    IN IF ~llm_ok
       THEN Result(st, first \o <<Effect(GENERATE_CONTENT, <<>>), Msg(ERRO_CRITICO, <<>>)>>, FALSE)
       ELSE LET r == process_gemini_response(Parsed[text], user_id, st, now_aware, store_ok)
            IN [r EXCEPT !.log = first \o r.log \o (IF r.raised THEN <<Msg(ERRO_CRITICO, <<>>)>> ELSE <<>>),
                         !.raised = FALSE]

handle_message(user_id, llm_ok, text, st, now_aware, store_ok) ==
    LET first == <<Msg(PROCESSANDO, <<>>), Effect(GENERATE_CONTENT, <<>>)>>
    IN IF ~llm_ok THEN Result(st, first \o <<Msg(ERRO_CRITICO, <<>>)>>, FALSE)
       ELSE LET r == process_gemini_response(Parsed[text], user_id, st, now_aware, store_ok)
            IN [r EXCEPT !.log = first \o r.log \o (IF r.raised THEN <<Msg(ERRO_CRITICO, <<>>)>> ELSE <<>>),
                         !.raised = FALSE]

\* the messages of a log: what the user sees
IsMessage(e) == e.kind \notin EffectKinds
Messages(log) == SelectSeq(log, IsMessage)

\* ------------------------------------------------------------------------
\* The clock: instants around DT_A and DT_B
\* ------------------------------------------------------------------------
ClockAt(i) ==
    IF i = 1 THEN <<2025, 11, 2, 9, 59, 59, 999999>>
    ELSE IF i = 2 THEN DT_A
    ELSE IF i = 3 THEN <<2025, 11, 2, 10, 0, 0, 1>>
    ELSE <<2025, 11, 2, 10, 0, i - 3, 0>>

\* ------------------------------------------------------------------------
\* State
\* ------------------------------------------------------------------------
VARIABLES
    db,         \* the notas table and its AUTOINCREMENT counter
    jobs,       \* the jobs of the job queue that have not run yet
    jobSeq,     \* number of jobs registered so far (gives jobs an identity)
    clk,        \* the clock: now is ClockAt(clk)
    update,     \* the update whose handling just ended, or NoUpdate
    out,        \* the messages reply_text sent while handling it
    log,        \* those messages and the calls made while handling it, in order
    calls       \* the calls of enviar_lembrete so far, in order

vars == <<db, jobs, jobSeq, clk, update, out, log, calls>>

now == ClockAt(clk)

NoUpdate == [user_id |-> 0, input |-> LlmFailure]
Idle == update = NoUpdate

\* main() on a fresh database: setup_database, an empty job queue
Init ==
    /\ db = EmptyDb
    /\ jobs = {}
    /\ jobSeq = 0
    /\ clk = 1
    /\ update = NoUpdate
    /\ out = <<>>
    /\ log = <<>>
    /\ calls = <<>>

\* a text update arrives and handle_message runs to its end
HandleMessage(user_id, input) ==
    LET r == handle_message(user_id, input.llm_ok, input.text,
                            [db |-> db, jobs |-> jobs, jobSeq |-> jobSeq], now, input.store_ok)
    IN /\ Idle
       /\ r.db.seq <= MaxId
       /\ r.jobSeq <= MaxJobs
       /\ db' = r.db
       /\ jobs' = r.jobs
       /\ jobSeq' = r.jobSeq
       /\ out' = Messages(r.log)
       /\ log' = r.log
       /\ update' = [user_id |-> user_id, input |-> input]
       /\ UNCHANGED <<clk, calls>>

\* the handler has returned; the application waits for the next update
Done ==
    /\ ~Idle
    /\ update' = NoUpdate
    /\ out' = <<>>
    /\ log' = <<>>
    /\ UNCHANGED <<db, jobs, jobSeq, clk, calls>>

\* time passes
Tick ==
    /\ Idle
    /\ clk < MaxClock
    /\ clk' = clk + 1
    /\ UNCHANGED <<db, jobs, jobSeq, update, out, log, calls>>

\* the job queue runs a job whose time has come: enviar_lembrete(job).
\* send_ok = FALSE is a send_message that raises; the job is gone either way.
enviar_lembrete(job, send_ok) ==
    [jid |-> job.jid, chat_id |-> job.chat_id, mensagem |-> job.data, sent |-> send_ok]

FireJob(job, send_ok) ==
    /\ Idle
    /\ job \in jobs
    /\ DtLeq(job.when, now)
    /\ calls' = Append(calls, enviar_lembrete(job, send_ok))
    /\ jobs' = jobs \ {job}
    /\ UNCHANGED <<db, jobSeq, clk, update, out, log>>

\* the process stops and main() runs again: the database file is kept,
\* the job queue of the new Application starts empty (PicklePersistence
\* stores user, chat and bot data, not jobs)
Restart ==
    /\ Idle
    /\ jobs # {}
    /\ jobs' = {}
    /\ UNCHANGED <<db, jobSeq, clk, update, out, log, calls>>

\* The reminder pipeline: schedule directives, the clock, the job queue
Next ==
    \/ \E user_id \in Users, input \in LembreteInputs : HandleMessage(user_id, input)
    \/ Done
    \/ Tick
    \/ \E job \in jobs, send_ok \in BOOLEAN : FireJob(job, send_ok)
    \/ Restart

Spec == Init /\ [][Next]_vars

\* The note store: save, list and delete directives
NextNotas ==
    \/ \E user_id \in Users, input \in NotasInputs : HandleMessage(user_id, input)
    \/ Done
    \/ Tick
    \/ \E job \in jobs, send_ok \in BOOLEAN : FireJob(job, send_ok)
    \/ Restart

SpecNotas == Init /\ [][NextNotas]_vars

\* The directive parser: replies without a directive or with an odd one
NextParse ==
    \/ \E user_id \in Users, input \in ParseInputs : HandleMessage(user_id, input)
    \/ Done
    \/ Tick
    \/ \E job \in jobs, send_ok \in BOOLEAN : FireJob(job, send_ok)
    \/ Restart

SpecParse == Init /\ [][NextParse]_vars

\* The views of the store: notes and reminders saved, listed and deleted
NextViews ==
    \/ \E user_id \in Users, input \in ViewInputs : HandleMessage(user_id, input)
    \/ Done
    \/ Tick
    \/ \E job \in jobs, send_ok \in BOOLEAN : FireJob(job, send_ok)
    \/ Restart

SpecViews == Init /\ [][NextViews]_vars

\* ------------------------------------------------------------------------
\* Vocabulary of the properties
\* ------------------------------------------------------------------------
Upd(user_id, input) == [user_id |-> user_id, input |-> input]
\* the step is handle_message(user_id, input) run from start to end
Handled(user_id, input) == Idle /\ update' = Upd(user_id, input)
Kinds(o) == {o[i].kind : i \in 1..Len(o)}
\* nothing but "Processando..." and the natural reply
QuietOut(natural) == <<Msg(PROCESSANDO, <<>>), Msg(NATURAL, natural)>>
ErrorKinds == {DEBUG, NOTA_VAZIA, AGENDAR_FALHOU, ID_INVALIDO, APAGAR_FALHOU, ERRO_CRITICO}
Instants == {ClockAt(k) : k \in 1..MaxClock}
Ids(rows) == {rows[i][1] : i \in 1..Len(rows)}
PendingIds(d, u, t) == Ids(consultar_notas_pendentes(d, u, t))
CompletedIds(d, u, t) == Ids(consultar_notas_concluidas(d, u, t))
SimpleIds(d, u) == Ids(consultar_notas_simples(d, u))

\* ------------------------------------------------------------------------
\* C1 (as stated; refuted under SpecNotas): for every owner u and every
\* non-empty content c, after a reply whose last line is
\* [SALVAR_NOTA: "c"] is handled for u, from a store with no simple note of
\* content c for u, consultar_notas_simples(u) has exactly one row of
\* content c, its due_at is NULL, and the note is in neither the pending
\* nor the completed view.
\* ------------------------------------------------------------------------
SimpleRowsOf(d, u, c) ==
    LET rows == consultar_notas_simples(d, u)
    IN {rows[i] : i \in {k \in 1..Len(rows) : rows[k][2] = c}}

SavedOnce(d, u, c) ==
    /\ Cardinality(SimpleRowsOf(d, u, c)) = 1
    /\ \A row \in SimpleRowsOf(d, u, c) :
          /\ row[3] = NULL
          /\ \A t \in Instants : row[1] \notin PendingIds(d, u, t) \cup CompletedIds(d, u, t)

C1_SalvarEveryContent ==
    [][\A u \in Users, c \in Contents \cup QuoteContents :
          (Handled(u, Input(TRUE, WithLast(SalvarLine(c)), TRUE)) /\ SimpleRowsOf(db, u, c) = {})
              => SavedOnce(db', u, c)]_vars

\* ------------------------------------------------------------------------
\* C2: for every owner u and every instant now, each note of u with a
\* due_at is in exactly one of consultar_notas_pendentes(u, now) and
\* consultar_notas_concluidas(u, now): pending exactly when due_at is later
\* than now, completed exactly when due_at is now or earlier.
\* (Stated of the store between two updates: Done leaves the store as the
\* handler left it, so every store the program reaches is covered.)
\* ------------------------------------------------------------------------
C2_PendingCompletedPartition ==
    Idle =>
        \A u \in Users, t \in Instants :
            LET pending == PendingIds(db, u, t)
                completed == CompletedIds(db, u, t)
            IN \A r \in db.rows :
                  (r.user_id = u /\ r.due_at # NULL) =>
                      /\ (r.id \in pending) # (r.id \in completed)
                      /\ (r.id \in pending) <=> DtLess(t, fromisoformat(r.due_at))
                      /\ (r.id \in completed) <=> DtLeq(fromisoformat(r.due_at), t)

\* a reminder whose due_at is exactly now is listed as completed
C2_Witness ==
    Idle /\ \E r \in db.rows :
        /\ r.due_at # NULL
        /\ fromisoformat(r.due_at) = now
        /\ r.id \in CompletedIds(db, r.user_id, now)
        /\ r.id \notin PendingIds(db, r.user_id, now)

\* ------------------------------------------------------------------------
\* C3: an AGENDAR_LEMBRETE directive whose timestamp is missing or is not a
\* valid YYYY-MM-DD HH:MM:SS date makes process_gemini_response send the
\* schedule error message and leaves the notes and the jobs as they were.
\* ------------------------------------------------------------------------
C3_BadTimestampRejected ==
    [][\A u \in Users, t \in BadAgendar :
          Handled(u, Input(TRUE, t, TRUE))
              => /\ db' = db
                 /\ jobs' = jobs
                 /\ AGENDAR_FALHOU \in Kinds(out')]_vars

\* the error was reported over a store and a job queue that are not empty
C3_Witness ==
    /\ ~Idle
    /\ update.input.text = WithLast(AgendarLine(<<"a">>, TS_BAD))
    /\ AGENDAR_FALHOU \in Kinds(out)
    /\ db.rows # {}
    /\ jobs # {}

\* ------------------------------------------------------------------------
\* C4 (as stated; refuted under SpecParse): a last line that starts with
\* '[' and ends with ']', is not [CONVERSAR] and is not a well-formed
\* directive of one of the four kinds (an unknown WORD included) makes
\* process_gemini_response send an error or debug message.
\* ------------------------------------------------------------------------
MalformedBracketed == {WithLast(<<"[", "]">>), WithLast(UnknownLine)}

C4_MalformedDirectiveReported ==
    (~Idle /\ update.input.llm_ok /\ update.input.text \in MalformedBracketed)
        => Kinds(out) \cap ErrorKinds # {}

\* ------------------------------------------------------------------------
\* C5 (as stated; refuted under Spec): after main runs again over the same
\* store, every note whose due_at is later than the restart instant has an
\* active job with its owner, fire time and content.
\* ------------------------------------------------------------------------
PendingNotesHaveJobs ==
    \A r \in db.rows :
        (r.due_at # NULL /\ DtLess(now, fromisoformat(r.due_at)))
            => \E j \in jobs : /\ j.chat_id = r.user_id
                               /\ j.when = fromisoformat(r.due_at)
                               /\ j.data = r.content

C5_RestartKeepsReminders == [][Restart => PendingNotesHaveJobs']_vars

\* ------------------------------------------------------------------------
\* C6: when an AGENDAR_LEMBRETE directive with a well-formed timestamp has
\* been handled, either a job firing at fire_at was registered and a note
\* with due_at = fire_at was inserted for the owner, or a failure message
\* was sent; one effect without the other never goes unreported.
\* ------------------------------------------------------------------------
Registered(u, c, at) ==
    \E j \in jobs' \ jobs : j.chat_id = u /\ j.data = c /\ j.when = at
Inserted(u, c, at) ==
    \E r \in db'.rows \ db.rows :
        r.user_id = u /\ r.content = c /\ r.due_at # NULL /\ fromisoformat(r.due_at) = at

C6_BothOrReported ==
    [][\A u \in Users, g \in GoodPairs, ok \in BOOLEAN :
          Handled(u, Input(TRUE, WithLast(AgendarLine(g[1], g[2])), ok))
              => \/ Registered(u, g[1], InstantOf(g[2])) /\ Inserted(u, g[1], InstantOf(g[2]))
                 \/ AGENDAR_FALHOU \in Kinds(out')]_vars

\* the insert failed after the job was registered, and the user was told
C6_Witness ==
    /\ ~Idle
    /\ update.input.text \in GoodAgendar
    /\ ~update.input.store_ok
    /\ AGENDAR_FALHOU \in Kinds(out)
    /\ \E j \in jobs : j.jid = jobSeq /\ j.chat_id = update.user_id
    /\ \A r \in db.rows : r.id # db.seq \/ r.due_at = NULL

\* ------------------------------------------------------------------------
\* C7 (as stated; refuted under Spec): two scheduled reminders have the
\* same job key exactly when they agree on owner, fire time and content.
\* ------------------------------------------------------------------------
C7_KeyPerOwnerTimeContent ==
    \A j1 \in jobs, j2 \in jobs :
        (j1.name = j2.name)
            <=> (j1.chat_id = j2.chat_id /\ j1.when = j2.when /\ j1.data = j2.data)

\* ------------------------------------------------------------------------
\* C8 (as stated; refuted under SpecNotas): for every integer id, after a
\* DELETAR_NOTA_POR_ID directive for id no note with that id is in a view of
\* any owner, and if no note had that id the directive ends with no error
\* message and an unchanged store.
\* ------------------------------------------------------------------------
\* a row whose id is written t is in some view of some owner
InAnyView(d, t) ==
    \E v \in Users :
        \/ \E n \in SimpleIds(d, v) : str(n) = t
        \/ \E k \in Instants : \E n \in PendingIds(d, v, k) \cup CompletedIds(d, v, k) : str(n) = t

DeleteContract(u, t) ==
    Handled(u, Input(TRUE, WithLast(DeletarLine(t)), TRUE))
        => /\ ~InAnyView(db', t)
           /\ (\A r \in db.rows : str(r.id) # t) => (db' = db /\ out' = QuietOut(OK))

C8_DeleteEveryInteger ==
    [][\A u \in Users, t \in {str(n) : n \in SmallIds} \cup {TwoTo63} : DeleteContract(u, t)]_vars

\* ------------------------------------------------------------------------
\* C9 (as stated; refuted under Spec): every job an AGENDAR_LEMBRETE
\* directive registered is still active or has had enviar_lembrete called
\* for it exactly once; none is dropped without firing.
\* ------------------------------------------------------------------------
CallsOf(jid) == {i \in 1..Len(calls) : calls[i].jid = jid}

C9_RegisteredJobsFire ==
    \A jid \in 1..jobSeq :
        \/ \E j \in jobs : j.jid = jid
        \/ Cardinality(CallsOf(jid)) = 1

\* ------------------------------------------------------------------------
\* C10: a reply of one line, a reply whose last line does not both start
\* with '[' and end with ']', and the literal [CONVERSAR] make
\* process_gemini_response send the natural reply and nothing else, and
\* leave the notes and the jobs as they were.
\* ------------------------------------------------------------------------
ConversationReplies == PlainReplies \cup {WithLast(CONVERSAR), ThreeLines}
\* the first line of the reply
FirstLine(t) == IF t = SalvarLine(<<"a">>) THEN t ELSE OK

C10_ConversationDoesNothing ==
    [][\A u \in Users, t \in ConversationReplies :
          Handled(u, Input(TRUE, t, TRUE))
              => /\ db' = db
                 /\ jobs' = jobs
                 /\ out' = QuietOut(FirstLine(t))]_vars

\* [CONVERSAR] was handled over a store and a job queue that are not empty
C10_Witness ==
    /\ ~Idle
    /\ update.input.text = WithLast(CONVERSAR)
    /\ out = QuietOut(OK)
    /\ db.rows # {}
    /\ jobs # {}

\* ------------------------------------------------------------------------
\* C11: for every store content and owner, consultar_notas_pendentes returns
\* the owner's pending reminders by ascending due_at, consultar_notas_concluidas
\* the completed ones by descending due_at, and consultar_notas_simples the
\* notes without due_at by descending id; each note is listed once.
\* Looked at between two messages, where every store the program reaches
\* is found.
\* ------------------------------------------------------------------------
\* the instants of the clock and one after the last reminder
LateInstant == ClockAt(MaxClock + 2)
QueryInstants == Instants \cup {LateInstant}
DueOf(rows, i) == fromisoformat(rows[i][3])
DueAscending(rows) == \A i \in 1..(Len(rows) - 1) : DtLeq(DueOf(rows, i), DueOf(rows, i + 1))
DueDescending(rows) == \A i \in 1..(Len(rows) - 1) : DtLeq(DueOf(rows, i + 1), DueOf(rows, i))
IdDescending(rows) == \A i \in 1..(Len(rows) - 1) : rows[i][1] > rows[i + 1][1]
\* rows lists exactly the notes of the set, each once
Lists(rows, notes) ==
    /\ Len(rows) = Cardinality(notes)
    /\ {rows[i] : i \in 1..Len(rows)} = {Row(r) : r \in notes}
NotesOf(u) == {r \in db.rows : r.user_id = u}

C11_ViewsOrdered ==
    Idle => \A u \in Users :
        LET simples == consultar_notas_simples(db, u)
        IN /\ IdDescending(simples)
           /\ Lists(simples, {r \in NotesOf(u) : r.due_at = NULL})
           /\ \A t \in QueryInstants :
                 LET pendentes == consultar_notas_pendentes(db, u, t)
                     concluidas == consultar_notas_concluidas(db, u, t)
                 IN /\ DueAscending(pendentes)
                    /\ DueDescending(concluidas)
                    /\ Lists(pendentes, {r \in NotesOf(u) : r.due_at # NULL
                                             /\ DtLess(t, fromisoformat(r.due_at))})
                    /\ Lists(concluidas, {r \in NotesOf(u) : r.due_at # NULL
                                              /\ DtLeq(fromisoformat(r.due_at), t)})

\* the later reminder was inserted first: pending lists the second note
\* first, completed (asked after both) lists the first note first
C11_Witness ==
    Idle /\ \E u \in Users :
        LET pendentes == consultar_notas_pendentes(db, u, ClockAt(1))
            concluidas == consultar_notas_concluidas(db, u, LateInstant)
        IN /\ Len(pendentes) = 2 /\ pendentes[1][1] > pendentes[2][1]
           /\ DueOf(pendentes, 1) # DueOf(pendentes, 2)
           /\ Len(concluidas) = 2 /\ concluidas[1][1] < concluidas[2][1]

\* ------------------------------------------------------------------------
\* C12 (as stated; refuted under SpecParse): no note of the store has empty
\* content and no scheduled job has an empty payload, because SALVAR_NOTA
\* and AGENDAR_LEMBRETE alike refuse an empty content.
\* ------------------------------------------------------------------------
C12_NoEmptyContent ==
    /\ \A r \in db.rows : r.content # <<>>
    /\ \A j \in jobs : j.data # <<>>

\* ------------------------------------------------------------------------
\* C13: a CONSULTAR_NOTAS directive produces one reply whose text has the
\* three section headings, always, in the order pending, completed, simple;
\* a section whose query returned no row shows its placeholder line, the
\* others one line per row; the store and the jobs stay as they were.
\* ------------------------------------------------------------------------
LinesOf(text, label) == {i \in 1..Len(text) : text[i].label = label}
\* the lines of text from the line after heading `from` to the line before
\* heading `to` (to the end when `to` is 0)
Between(text, from, to) ==
    SubSeq(text, from + 1, IF to = 0 THEN Len(text) ELSE to - 1)
\* lines shows rows: the placeholder alone, or one item per row in order
Shows(lines, placeholder, item, rows) ==
    IF rows = <<>>
    THEN lines = <<Heading(placeholder)>>
    ELSE /\ Len(lines) = Len(rows)
         /\ \A i \in 1..Len(rows) : /\ lines[i].label = item
                                      /\ lines[i].note_id = rows[i][1]
                                      /\ lines[i].content = rows[i][2]
ThreeSections(text, pendentes, concluidas, simples) ==
    /\ \A h \in {H_PENDENTES, H_CONCLUIDOS, H_SIMPLES} : Cardinality(LinesOf(text, h)) = 1
    /\ LET hp == CHOOSE i \in LinesOf(text, H_PENDENTES) : TRUE
           hc == CHOOSE i \in LinesOf(text, H_CONCLUIDOS) : TRUE
           hs == CHOOSE i \in LinesOf(text, H_SIMPLES) : TRUE
       IN /\ hp < hc /\ hc < hs
          /\ Shows(Between(text, hp, hc), NENHUM_PENDENTE, ITEM_PARA, pendentes)
          /\ Shows(Between(text, hc, hs), NENHUM_CONCLUIDO, ITEM_ERA, concluidas)
          /\ Shows(Between(text, hs, 0), NENHUMA_SIMPLES, ITEM, simples)

C13_ThreeSectionsAlways ==
    [][\A u \in Users :
          Handled(u, Input(TRUE, WithLast(ConsultarLine), TRUE))
              => /\ db' = db
                 /\ jobs' = jobs
                 /\ Len(out') = 3
                 /\ SubSeq(out', 1, 2) = QuietOut(OK)
                 /\ out'[3].kind = REGISTROS
                 /\ ThreeSections(out'[3].arg,
                                  consultar_notas_pendentes(db, u, now),
                                  consultar_notas_concluidas(db, u, now),
                                  consultar_notas_simples(db, u))]_vars

\* a listing with a pending reminder, a note, and no completed reminder
C13_Witness ==
    /\ ~Idle
    /\ update.input.text = WithLast(ConsultarLine)
    /\ Len(out) = 3
    /\ out[3].kind = REGISTROS
    /\ LinesOf(out[3].arg, ITEM_PARA) # {}
    /\ LinesOf(out[3].arg, NENHUM_CONCLUIDO) # {}
    /\ LinesOf(out[3].arg, ITEM) # {}

\* ------------------------------------------------------------------------
\* C14: when the LLM call of a message fails, handle_message sends the one
\* fixed failure reply (after "Processando..."), has called the LLM once,
\* and leaves the store and the jobs as they were.
\* ------------------------------------------------------------------------
Count(events, kind) == Cardinality({i \in 1..Len(events) : events[i].kind = kind})

C14_LlmFailureOneReply ==
    [][\A u \in Users :
          Handled(u, LlmFailure)
              => /\ db' = db
                 /\ jobs' = jobs
                 /\ out' = <<Msg(PROCESSANDO, <<>>), Msg(ERRO_CRITICO, <<>>)>>
                 /\ Count(log', GENERATE_CONTENT) = 1
                 /\ Count(log', RUN_ONCE) + Count(log', ADICIONAR_NOTA) + Count(log', DELETAR_NOTA) = 0]_vars

\* the LLM call failed over a store and a job queue that are not empty
C14_Witness ==
    /\ ~Idle
    /\ update.input = LlmFailure
    /\ Count(out, ERRO_CRITICO) = 1
    /\ db.rows # {}
    /\ jobs # {}

\* ------------------------------------------------------------------------
\* C15: DELETAR_NOTA_POR_ID checks no ownership: when user A issues it with
\* the id of a note owned by another user B, that note is removed from the
\* store (and nothing else is, and no error is reported).
\* ------------------------------------------------------------------------
DeleteOne == Input(TRUE, WithLast(DeletarLine(<<"1">>)), TRUE)

C15_DeleteIgnoresOwner ==
    [][\A a \in Users, r \in db.rows :
          (Handled(a, DeleteOne) /\ r.id = 1 /\ r.user_id # a)
              => /\ db'.rows = db.rows \ {r}
                 /\ \A x \in db'.rows : x.id # 1
                 /\ out' = QuietOut(OK)]_vars

\* the delete just handled removed a note of an owner other than its sender
C15_Witness ==
    /\ ~Idle
    /\ update.input = DeleteOne
    /\ \E i \in 1..Len(log) :
          /\ log[i].kind = DELETAR_NOTA
          /\ \E r \in log[i].arg : r.id = 1 /\ r.user_id # update.user_id
    /\ \A x \in db.rows : x.id # 1

\* ------------------------------------------------------------------------
\* C16: over any sequence of inserts and deletes, an inserted note gets an
\* id greater than every id assigned before it, the ids of deleted notes
\* included; ids are unique, never reused, and a stored note keeps its id.
\* Every id ever assigned is at most the AUTOINCREMENT counter (db.seq), the
\* counter never decreases, and a new note gets an id above it.
\* ------------------------------------------------------------------------
IdsOf(d) == {r.id : r \in d.rows}

C16_IdsGrow ==
    [][/\ \A r \in db.rows : r.id <= db.seq
       /\ db.seq <= db'.seq
       /\ \A r \in db'.rows \ db.rows : r.id > db.seq /\ r.id <= db'.seq
       /\ \A r \in db.rows, x \in db'.rows : (x.id = r.id) => (x = r)
       /\ Cardinality(IdsOf(db')) = Cardinality(db'.rows)]_vars

\* note 1 was deleted, the store is empty, and a later note got id 2
C16_Witness ==
    /\ db.seq = 2
    /\ IdsOf(db) = {2}
    /\ ~Idle
    /\ \E i \in 1..Len(log) : log[i].kind = ADICIONAR_NOTA

\* ------------------------------------------------------------------------
\* C17: deleting the note of a pending reminder does not cancel its timer:
\* a DELETAR_NOTA_POR_ID directive leaves the set of active jobs as it was,
\* and an active job whose time has come can be run whether or not a note
\* of the store goes with it.
\* ------------------------------------------------------------------------
NoteOf(j) == {r \in db.rows : /\ r.due_at # NULL
                              /\ r.user_id = j.chat_id
                              /\ r.content = j.data
                              /\ fromisoformat(r.due_at) = j.when}

LaterKinds == {RUN_ONCE, ADICIONAR_NOTA, DELETAR_NOTA, REGISTROS} \cup ErrorKinds
MiddleLine == SalvarLine(<<"b">>)

C18_FirstLineFirst ==
    [][\A u \in Users, input \in ParseInputs :
          Handled(u, input)
              => /\ Count(log', NATURAL) = 1
                 /\ \A n \in 1..Len(log') :
                       (log'[n].kind = NATURAL)
                           => /\ log'[n].arg = FirstLine(input.text)
                              /\ \A i \in 1..Len(log') : (log'[i].kind \in LaterKinds) => i > n
                 /\ \A i \in 1..Len(log') : log'[i].arg # MiddleLine
                 /\ \A r \in db'.rows \ db.rows : r.content # <<"b">>]_vars

\* the last of three lines was carried out after the natural reply, the
\* middle line was not
C18_Witness ==
    /\ ~Idle
    /\ update.input.text = ThreeLinesActing
    /\ log = <<Msg(PROCESSANDO, <<>>), Effect(GENERATE_CONTENT, <<>>), Msg(NATURAL, OK),
               Effect(ADICIONAR_NOTA, <<"a">>)>>
    /\ \E r \in db.rows : r.id = db.seq /\ r.content = <<"a">>

\* ------------------------------------------------------------------------
\* C19: handling a SALVAR_NOTA, AGENDAR_LEMBRETE or CONSULTAR_NOTAS
\* directive for a user leaves the notes of every other user as they were
\* (none added, removed or changed), and none of the three views of a user
\* lists a note of another owner.
\* ------------------------------------------------------------------------
OwnerInputs == ViewInputs \ {DeleteOne}
NotesOfOthers(d, u) == {r \in d.rows : r.user_id # u}
Listed(rows) == {rows[i] : i \in 1..Len(rows)}
OnlyOwn(d, u, rows) == \A r \in NotesOfOthers(d, u) : Row(r) \notin Listed(rows)

C19_OwnerIsolation ==
    [][/\ \A u \in Users, input \in OwnerInputs :
             Handled(u, input) => NotesOfOthers(db', u) = NotesOfOthers(db, u)
       \* the views are functions of the store: every store the program
       \* reaches is looked at in the step that produces it
       /\ (db' # db) =>
             \A u \in Users :
                 /\ OnlyOwn(db', u, consultar_notas_simples(db', u))
                 /\ \A t \in QueryInstants :
                       /\ OnlyOwn(db', u, consultar_notas_pendentes(db', u, t))
                       /\ OnlyOwn(db', u, consultar_notas_concluidas(db', u, t))]_vars

\* a user scheduled a reminder while the other user has a simple note: the
\* other user's note is in the store as it was, and the views of the user
\* who scheduled list the new reminder alone
C19_Witness ==
    /\ ~Idle
    /\ update.input \in OwnerInputs
    /\ \E i \in 1..Len(log) : log[i].kind = ADICIONAR_NOTA
    /\ \E r \in db.rows : r.id = db.seq /\ r.user_id = update.user_id /\ r.due_at # NULL
    /\ \E x \in NotesOfOthers(db, update.user_id) : x.due_at = NULL /\ x.id < db.seq
    /\ consultar_notas_simples(db, update.user_id) = <<>>
    /\ Len(consultar_notas_pendentes(db, update.user_id, now)) = 1

====
